---------------------------- MODULE Spec2Model ----------------------------
(***************************************************************************)
(* A model of forcebalance/gmxio.py: the lookup tables fdict and pdict,    *)
(* parse_atomtype_line and the line classifier ITP_Reader.feed.            *)
(*                                                                         *)
(* Python strings are TLA+ strings, read character by character with       *)
(* SubSeq; Python lists are sequences (list index k is sequence index      *)
(* k+1); a value that may be None is a sequence of length 0 (None) or 1.   *)
(* An exception ends the call: the assignments made before the raise stay, *)
(* err names the exception, and the caller stops feeding that reader.      *)
(***************************************************************************)
EXTENDS Integers, Sequences, FiniteSets, TLC

VARIABLES
    fnm,      \* the file the reader was constructed for (ITP_Reader(fnm))
    place,    \* the caller's place in the file: the header it read last
    sec,      \* self.sec: None or the current section name
    nbtype,   \* self.nbtype: None or the integer of the defaults section
    res,      \* self.res: None or the current residue name
    adict,    \* self.adict: residue name -> list of atom names
    pdict,    \* the module-level pdict (self.pdict is a reference to it)
    itype,    \* self.itype: None or the interaction type of the last call
    suffix,   \* self.suffix
    atom,     \* the local variable atom when the last call ended
    ret,      \* what the last call returned
    err,      \* "none", or the exception the last call raised
    built,    \* the number of readers constructed so far
    line,     \* the line given to the last call
    bonuses   \* history: the bonus counts of the atomtypes lines parsed so far

vars == <<fnm, place, sec, nbtype, res, adict, pdict, itype, suffix, atom, ret, err, built,
          line, bonuses>>

----------------------------------------------------------------------------
(* Python values *)

None == <<>>
Some(x) == <<x>>

EmptyDict == [k \in {} |-> ""]

\* The characters the modelled files use, in ASCII order.
Alphabet == "\t\n +-.0123456789;ABCDEFGHIJKLMNOPQRSTUVWXYZ[]_abcdefghijklmnopqrstuvwxyz"

CharAt(str, i) == SubSeq(str, i, i)

CharSet == {CharAt(Alphabet, i) : i \in 1..Len(Alphabet)}

OrdOf == [c \in CharSet |-> CHOOSE i \in 1..Len(Alphabet) : CharAt(Alphabet, i) = c]

Ord(c) == OrdOf[c]

Whitespace == {" ", "\t", "\n"}

Digits == {CharAt("0123456789", i) : i \in 1..10}

Letters == {c \in CharSet : \/ Ord("A") <= Ord(c) /\ Ord(c) <= Ord("Z")
                            \/ Ord("a") <= Ord(c) /\ Ord(c) <= Ord("z")}

\* str1 > str2 on Python 2 byte strings: the first differing character
\* decides, and a proper prefix is the smaller string.
RECURSIVE GTFrom(_, _, _)
GTFrom(a, b, i) ==
    IF i > Len(a) THEN FALSE
    ELSE IF i > Len(b) THEN TRUE
    ELSE IF CharAt(a, i) = CharAt(b, i) THEN GTFrom(a, b, i + 1)
    ELSE Ord(CharAt(a, i)) > Ord(CharAt(b, i))

StrGT(a, b) == GTFrom(a, b, 1)

\* The elements a Python iteration over a string yields: its characters.
Chars(str) == [i \in 1..Len(str) |-> CharAt(str, i)]

\* list[::-1]
Reverse(list) == [i \in 1..Len(list) |-> list[Len(list) + 1 - i]]

\* ''.join(list)
RECURSIVE Join(_)
Join(list) == IF Len(list) = 0 THEN "" ELSE Head(list) \o Join(Tail(list))

\* str.split(): the maximal runs of non-whitespace characters.
RECURSIVE SplitFrom(_, _, _, _)
SplitFrom(str, i, cur, acc) ==
    IF i > Len(str) THEN (IF cur = "" THEN acc ELSE Append(acc, cur))
    ELSE IF CharAt(str, i) \in Whitespace
         THEN SplitFrom(str, i + 1, "", IF cur = "" THEN acc ELSE Append(acc, cur))
         ELSE SplitFrom(str, i + 1, cur \o CharAt(str, i), acc)

Split(str) == SplitFrom(str, 1, "", <<>>)

\* str.split(';')[0]: the text before the first semicolon.
RECURSIVE UpTo(_, _, _)
UpTo(str, c, i) ==
    IF i > Len(str) \/ CharAt(str, i) = c THEN SubSeq(str, 1, i - 1)
    ELSE UpTo(str, c, i + 1)

BeforeSemicolon(str) == UpTo(str, ";", 1)

\* sub('[\[\] \n]', '', line)
RECURSIVE StripFrom(_, _)
StripFrom(str, i) ==
    IF i > Len(str) THEN ""
    ELSE (IF CharAt(str, i) \in {"[", "]", " ", "\n"} THEN "" ELSE CharAt(str, i))
         \o StripFrom(str, i + 1)

SecName(str) == StripFrom(str, 1)

\* match('^;', line)
IsComment(str) == Len(str) > 0 /\ CharAt(str, 1) = ";"

\* match('^\[.*\]', line): an opening bracket first and a closing bracket
\* later on the same line ('.' does not match a newline).
IsHeader(str) ==
    /\ Len(str) > 0
    /\ CharAt(str, 1) = "["
    /\ \E j \in 2..Len(str) :
          /\ CharAt(str, j) = "]"
          /\ \A k \in 2..(j - 1) : CharAt(str, k) # "\n"

\* The index of the first character at or after i that is no digit.
RECURSIVE SpanDigits(_, _)
SpanDigits(str, i) ==
    IF i <= Len(str) /\ CharAt(str, i) \in Digits THEN SpanDigits(str, i + 1) ELSE i

AfterSign(str, i) == IF i <= Len(str) /\ CharAt(str, i) \in {"+", "-"} THEN i + 1 ELSE i

\* int(str) succeeds: an optional sign and one or more digits.
IsIntLit(str) ==
    LET i0 == AfterSign(str, 1)
    IN  i0 <= Len(str) /\ SpanDigits(str, i0) = Len(str) + 1

RECURSIVE DigitsVal(_, _, _)
DigitsVal(str, i, acc) ==
    IF i > Len(str) THEN acc
    ELSE DigitsVal(str, i + 1, 10 * acc + (Ord(CharAt(str, i)) - Ord("0")))

\* int(str) of an integer literal.
IntVal(str) ==
    LET i0 == AfterSign(str, 1)
        n  == DigitsVal(str, i0, 0)
    IN  IF CharAt(str, 1) = "-" THEN 0 - n ELSE n

\* float(str) succeeds: sign, digits with an optional point, optional exponent.
IsFloatLit(str) ==
    LET i0 == AfterSign(str, 1)
        i1 == SpanDigits(str, i0)
        i2 == IF i1 <= Len(str) /\ CharAt(str, i1) = "." THEN SpanDigits(str, i1 + 1) ELSE i1
        mantissa == (i1 > i0) \/ (i2 > i1 + 1)
        i3 == AfterSign(str, i2 + 1)
        i4 == SpanDigits(str, i3)
    IN  /\ mantissa
        /\ \/ i2 = Len(str) + 1
           \/ /\ i2 <= Len(str)
              /\ CharAt(str, i2) \in {"e", "E"}
              /\ i4 > i3
              /\ i4 = Len(str) + 1

\* nifty.isint(word)
isint(word) == IsIntLit(word)

\* Python list indexing with an integer: a negative index counts from the end.
HasItem(list, i) == (0 - Len(list)) <= i /\ i < Len(list)
Item(list, i) == IF i >= 0 THEN list[i + 1] ELSE list[Len(list) + i + 1]

\* list[:n]
Prefix(list, n) == SubSeq(list, 1, IF n < Len(list) THEN n ELSE Len(list))

----------------------------------------------------------------------------
(* The lookup tables *)

nftypes == <<None, Some("VDW"), Some("VDW_BHAM")>>

pftypes == <<None, Some("VPAIR"), Some("VPAIR_BHAM")>>

bftypes == <<None, Some("BONDS"), Some("G96BONDS"), Some("MORSE")>>

aftypes == <<None, Some("ANGLES"), Some("G96ANGLES"), Some("CROSS_BOND_BOND"),
             Some("CROSS_BOND_ANGLE"), Some("UREY_BRADLEY"), Some("QANGLES")>>

dftypes == <<None, Some("PDIHS"), Some("IDIHS"), Some("RBDIHS")>>

fdict ==
    [s \in {"atomtypes", "nonbond_params", "bonds", "bondtypes", "angles",
            "angletypes", "dihedrals", "dihedraltypes", "virtual_sites2",
            "virtual_sites3", "virtual_sites4"} |->
        CASE s = "atomtypes"      -> nftypes
          [] s = "nonbond_params" -> pftypes
          [] s = "bonds"          -> bftypes
          [] s = "bondtypes"      -> bftypes
          [] s = "angles"         -> aftypes
          [] s = "angletypes"     -> aftypes
          [] s = "dihedrals"      -> dftypes
          [] s = "dihedraltypes"  -> dftypes
          [] s = "virtual_sites2" -> <<Some("NONE"), Some("VSITE2")>>
          [] s = "virtual_sites3" -> <<Some("NONE"), Some("VSITE3"), Some("VSITE3FD"),
                                       Some("VSITE3FAD"), Some("VSITE3OUT")>>
          [] s = "virtual_sites4" -> <<Some("NONE"), Some("VSITE4FD")>>]

\* A dictionary given by its items <<key, value>>.
Dict(items) == [k \in {it[1] : it \in items} |-> (CHOOSE it \in items : it[1] = k)[2]]

\* pdict as the module defines it, before any call of feed.
pdict_initial ==
    [k \in {"BONDS", "G96BONDS", "MORSE", "ANGLES", "G96ANGLES", "CROSS_BOND_BOND",
            "CROSS_BOND_ANGLE", "QANGLES", "UREY_BRADLEY", "PDIHS1", "PDIHS2",
            "PDIHS3", "PDIHS4", "PDIHS5", "PDIHS6", "IDIHS", "VDW", "VPAIR", "COUL",
            "RBDIHS", "VDW_BHAM", "VPAIR_BHAM", "QTPIE", "VSITE2", "VSITE3",
            "VSITE3FD", "VSITE3FAD", "VSITE3OUT", "VSITE4FD"} |->
        CASE k = "BONDS"            -> Dict({<<3, "B">>, <<4, "K">>})
          [] k = "G96BONDS"         -> EmptyDict
          [] k = "MORSE"            -> Dict({<<3, "B">>, <<4, "C">>, <<5, "E">>})
          [] k = "ANGLES"           -> Dict({<<4, "B">>, <<5, "K">>})
          [] k = "G96ANGLES"        -> EmptyDict
          [] k = "CROSS_BOND_BOND"  -> Dict({<<4, "1">>, <<5, "2">>, <<6, "K">>})
          [] k = "CROSS_BOND_ANGLE" -> Dict({<<4, "1">>, <<5, "2">>, <<6, "3">>, <<7, "K">>})
          [] k = "QANGLES"          -> Dict({<<4, "B">>, <<5, "K0">>, <<6, "K1">>,
                                             <<7, "K2">>, <<8, "K3">>, <<9, "K4">>})
          [] k = "UREY_BRADLEY"     -> Dict({<<4, "T">>, <<5, "K1">>, <<6, "B">>, <<7, "K2">>})
          [] k \in {"PDIHS1", "PDIHS2", "PDIHS3", "PDIHS4", "PDIHS5", "PDIHS6", "IDIHS"}
                                    -> Dict({<<5, "B">>, <<6, "K">>})
          [] k = "VDW"              -> Dict({<<4, "S">>, <<5, "T">>})
          [] k = "VPAIR"            -> Dict({<<3, "S">>, <<4, "T">>})
          [] k = "COUL"             -> Dict({<<6, "">>})
          [] k = "RBDIHS"           -> Dict({<<6, "K1">>, <<7, "K2">>, <<8, "K3">>,
                                             <<9, "K4">>, <<10, "K5">>})
          [] k = "VDW_BHAM"         -> Dict({<<4, "A">>, <<5, "B">>, <<6, "C">>})
          [] k = "VPAIR_BHAM"       -> Dict({<<3, "A">>, <<4, "B">>, <<5, "C">>})
          [] k = "QTPIE"            -> Dict({<<1, "C">>, <<2, "H">>, <<3, "A">>})
          [] k = "VSITE2"           -> Dict({<<4, "A">>})
          [] k = "VSITE3"           -> Dict({<<5, "A">>, <<6, "B">>})
          [] k = "VSITE3FD"         -> Dict({<<5, "A">>, <<6, "D">>})
          [] k = "VSITE3FAD"        -> Dict({<<5, "T">>, <<6, "D">>})
          [] k = "VSITE3OUT"        -> Dict({<<5, "A">>, <<6, "B">>, <<7, "C">>})
          [] k = "VSITE4FD"         -> Dict({<<6, "A">>, <<7, "B">>, <<8, "D">>})]

----------------------------------------------------------------------------
(* parse_atomtype_line *)

\* The result: status "None" (the function returned nothing), "ValueError"
\* (float() refused a field) or "ok" with the dictionary's entries.  mass,
\* chg and param hold the literals float() accepted.
NoAtomtype(status) ==
    [status |-> status, atomtype |-> "", batomtype |-> "", atomicnum |-> -1,
     mass |-> "", chg |-> "", ptp |-> "", param |-> <<>>, bonus |-> 0]

\* A fault: the atomic number is left out of the count of optional fields.
parse_atomtype_line_NameOnlyBonus(l) ==
    LET sline == Split(BeforeSemicolon(l))
    IN  IF Len(sline) < 6 THEN NoAtomtype("None")
        ELSE
        LET hasB   == CharAt(Item(sline, 1), 1) \in Letters
            wrd1   == IF hasB THEN 2 ELSE 1
            hasN   == isint(Item(sline, wrd1))
            wrd2   == IF hasN THEN wrd1 + 1 ELSE wrd1
            param  == SubSeq(sline, wrd2 + 4, Len(sline))
        IN  IF \/ ~IsFloatLit(Item(sline, wrd2))
               \/ ~IsFloatLit(Item(sline, wrd2 + 1))
               \/ \E i \in 1..Len(param) : ~IsFloatLit(param[i])
            THEN NoAtomtype("ValueError")
            ELSE [status    |-> "ok",
                  atomtype  |-> Item(sline, 0),
                  batomtype |-> IF hasB THEN Item(sline, 1) ELSE Item(sline, 0),
                  atomicnum |-> IF hasN THEN IntVal(Item(sline, wrd1)) ELSE -1,
                  mass      |-> Item(sline, wrd2),
                  chg       |-> Item(sline, wrd2 + 1),
                  ptp       |-> Item(sline, wrd2 + 2),
                  param     |-> param,
                  bonus     |-> IF hasB THEN 1 ELSE 0]

parse_atomtype_line(l) ==
    LET sline == Split(BeforeSemicolon(l))
    IN  IF Len(sline) < 6 THEN NoAtomtype("None")
        ELSE
        LET hasB   == CharAt(Item(sline, 1), 1) \in Letters
            wrd1   == IF hasB THEN 2 ELSE 1
            hasN   == isint(Item(sline, wrd1))
            wrd2   == IF hasN THEN wrd1 + 1 ELSE wrd1
            bonus  == (IF hasB THEN 1 ELSE 0) + (IF hasN THEN 1 ELSE 0)
            param  == SubSeq(sline, wrd2 + 4, Len(sline))
        IN  IF \/ ~IsFloatLit(Item(sline, wrd2))
               \/ ~IsFloatLit(Item(sline, wrd2 + 1))
               \/ \E i \in 1..Len(param) : ~IsFloatLit(param[i])
            THEN NoAtomtype("ValueError")
            ELSE [status    |-> "ok",
                  atomtype  |-> Item(sline, 0),
                  batomtype |-> IF hasB THEN Item(sline, 1) ELSE Item(sline, 0),
                  atomicnum |-> IF hasN THEN IntVal(Item(sline, wrd1)) ELSE -1,
                  mass      |-> Item(sline, wrd2),
                  chg       |-> Item(sline, wrd2 + 1),
                  ptp       |-> Item(sline, wrd2 + 2),
                  param     |-> param,
                  bonus     |-> bonus]

----------------------------------------------------------------------------
(* The files fed to a reader.  A file is a set of <<place, line>>: the line *)
(* stands under the section header place, before the first header (place   *)
(* Top) or anywhere (place Anywhere: blank and comment lines).  A header    *)
(* is itself a line of the file.                                            *)

\* The longest list of atom names a residue gets.
MaxAtoms == 4

\* The number of readers constructed in one run of the program.
MaxReaders == 2

Top == "top"
Anywhere == "anywhere"

At(h, ls) == {<<h, l>> : l \in ls}

\* A water topology.
WaterFile ==
    At("[ moleculetype ]\n", {"WAT\n"})
    \cup At("[ atoms ]\n", {"1 OW 1 WAT OW 1 0.0\n", "2 HW 1 WAT HW1 1 0.52\n",
                            "3 HW 1 WAT HW2 1 0.52\n", "4 MW 1 WAT MW 1 -1.04\n"})
    \cup At("[ bonds ]\n", {"1 2 1\n", "2 1 1\n", "1 5 1\n", "0 2 1\n", "-1 2 1\n",
                            "1 2 4\n", "1 2 -1\n"})
    \cup At("[ bonds ] ; water\n", {"1 2 1\n"})
    \cup At("[\tatoms\t]\n", {"1 OW 1 WAT OW 1 0.0\n"})

\* A topology with bonds, angles and dihedrals; its atoms carry the residue
\* name LIG, its moleculetype lines name LIG or SOL.
LigandFile ==
    At(Anywhere, {"\n", "; ligand\n"})
    \cup At("[ moleculetype ]\n", {"LIG 3\n", "SOL 3\n"})
    \cup At("[ atoms ]\n", {"1 CT 1 LIG C1 1 0.1\n", "2 OS 1 LIG O2 1 -0.1\n",
                            "3 OW 2 SOL OW 2 -0.8\n"})
    \cup At("[ bonds ]\n", {"1 2 1 0.15 1000.0\n", "2 1 1 0.15 1000.0\n",
                            "1 3 3 0.15 0.2 0.3\n", "3 1 3 0.15 0.2 0.3\n"})
    \cup At("[ angles ]\n", {"1 2 3 1 109.5 400.0\n", "3 2 1 1 109.5 400.0\n",
                             "2 3 5 5 109.5 400.0 0.2 0.3\n",
                             "1 0 2 1 109.5 400.0\n", "1 2 3 7 109.5 400.0\n",
                             "1 2 3 -2 109.5 400.0\n"})
    \cup At("[ dihedrals ]\n", {"1 2 3 4 1 180.0 5.0 3\n", "4 3 2 1 1 180.0 5.0 3\n",
                                "1 2 3 4 1 180.0 5.0 1\n", "1 2 3 4 1 180.0 5.0\n",
                                "1 2 3 4 3 0.0 0.1 0.2 0.3 0.4 0.5\n",
                                "2 3 4 5 2 0.0 5.0\n",
                                "2 1 2 -1 2 0.0 5.0\n", "1 2 3 4 4 0.0 5.0\n",
                                "1 2 3 4 -3 0.0 5.0 3\n"})

\* A force field: the type sections and the sections without atom indices.
ForceFieldFile ==
    At(Anywhere, {"\n", "  \n", "; force field\n"})
    \cup At(Top, {"#define HEAVY_H\n"})
    \cup At("[ defaults ]\n", {"1 1 no 1.0 1.0\n", "2 1 no 1.0 1.0\n",
                               "-1 1 no 1.0 1.0\n"})
    \cup At("[ atomtypes ]\n",
            {"opls_135 CT 6 12.0107 0.0000 A 3.5000e-01 2.7614e-01\n",
             "C 12.0107 0.0000 A 3.7500e-01 4.3932e-01\n",
             "Na 11 22.9897 0.0000 A 6.068e+03 2.662e+01 0.0000e+00 ; PARM 5 6\n",
             "HW 1 1.008 0.41 A ; 0.0 0.0\n", "MW 0.0 -1.04 D\n",
             "opls_154 OH 15.9994 -0.683 A 3.12e-01 7.11e-01\n"})
    \cup At("[ nonbond_params ]\n", {"C Na 1 0.3 0.4\n", "Na C 1 0.3 0.4\n"})
    \cup At("[ bondtypes ]\n", {"CT HC 1 0.109 284512.0\n", "HC CT 1 0.109 284512.0\n",
                                "CT HC 4 0.109 284512.0\n", "CT HC -1 0.109 284512.0\n",
                                "CT HC 1 0.109 284512.0 ; PARM 3 4\n",
                                "CT HC 0 0.109 284512.0\n"})
    \cup At("[ angletypes ]\n",
            {"CA CB O 1 109.47 350.00 ; PARM 4 5\n",
             "O CB CA 1 109.47 350.00 ; PARM 4 5\n",
             "H O H 5 1.23e+02 4.27e+02 -1.03e-02 1.30e+04 ; PARM 4 5 6 7\n",
             "CA CB O 7 109.47 350.00\n", "CA CB O -1 109.47 350.00\n"})
    \cup At("[ dihedraltypes ]\n",
            {"CT CT OS CT 1 0.0 1.0 3\n", "CT OS CT CT 1 0.0 1.0 3\n",
             "HC CT CT OS 1 0.0 1.0 1\n", "OS CT CT HC 1 0.0 1.0 1\n",
             "HC CT CT OS 3 0.0 0.1 0.2 0.3 0.4 0.5\n",
             "HC CT CT OS 4 0.0 1.0 1\n", "HC CT CT OS -2 0.0 1.0 1\n",
             "HC CT CT OS 1 0.0 1.0 7\n",
             "CT CT OS CT 1 0.0 1.0\n", "CT CT OS CT 1 0.0 1.0 ; PARM 5 6\n",
             "CT CT OS CT 1 0.0\n"})
    \cup At("[ qtpie ]\n", {"8 1.0 2.0 3.0\n"})
    \cup At("[ virtual_sites2 ]\n", {"3 1 2 1 0.5\n", "3 1 2 2 0.5\n", "3 1 2 -1 0.5\n",
                                     "3 1 2 0 0.5\n"})
    \cup At("[ virtual_sites3 ]\n", {"4 1 2 3 1 0.1 0.1\n", "4 1 2 3 4 0.1 0.1 0.1\n",
                                     "4 1 2 3 2 0.1 0.1\n", "4 1 2 3 3 0.1 0.1\n",
                                     "4 1 2 3 5 0.1 0.1\n"})
    \cup At("[ virtual_sites4 ]\n", {"5 1 2 3 4 1 0.1 0.2 0.3\n",
                                     "5 1 2 3 4 2 0.1 0.2 0.3\n"})
    \cup At("[ system ]\n", {"Water box\n"})

Files == {"water.itp", "ligand.itp", "ff.itp"}

File ==
    [f \in Files |->
        CASE f = "water.itp"  -> WaterFile
          [] f = "ligand.itp" -> LigandFile
          [] f = "ff.itp"     -> ForceFieldFile]

Headers == [f \in Files |-> {p[1] : p \in File[f]} \ {Top, Anywhere}]

\* The lines of file f under the header h (or at Top).
LinesAt ==
    [f \in Files |->
        [h \in Headers[f] \cup {Top} |->
            {p[2] : p \in {q \in File[f] : q[1] \in {h, Anywhere}}}]]

AllLines == UNION {Headers[f] \cup {p[2] : p \in File[f]} : f \in Files}

----------------------------------------------------------------------------
(* ITP_Reader.feed *)

\* line.split() and parse_atomtype_line(line), computed once for each line
\* of the files.
Tokens == [l \in AllLines |-> Split(l)]

Atypes == [l \in AllLines |-> parse_atomtype_line(l)]

\* The values feed returns, and a record of how the call ended.
PyNone == [t |-> "None", v |-> ""]
PyStr(x) == [t |-> "str", v |-> x]
PyEmptyList == [t |-> "list", v |-> ""]
PyOpt(o) == IF o = None THEN PyNone ELSE PyStr(o[1])

Returned(items) == [kind |-> "tuple", items |-> items]
ReturnedNone == [kind |-> "None", items |-> <<>>]
Raised == [kind |-> "raise", items |-> <<>>]
NotCalled == [kind |-> "nocall", items |-> <<>>]

\* Where a branch of the case statement leaves the call: the reader's
\* fields, the local atom and the exception raised ("none": none).
Branch(st, at, e) == [st |-> st, atom |-> at, err |-> e]

Min(S) == CHOOSE x \in S : \A y \in S : x <= y

\* [self.adict[self.res][int(i) - 1] for i in s[:n]]: the exception of the
\* first element that fails, "none" when every element resolves.
NamesErr(st, s, n) ==
    IF st.res = None \/ st.res[1] \notin DOMAIN st.adict THEN "KeyError"
    ELSE LET names == st.adict[st.res[1]]
             idx   == Prefix(s, n)
             bad   == {k \in 1..Len(idx) :
                          \/ ~IsIntLit(idx[k])
                          \/ ~HasItem(names, IntVal(idx[k]) - 1)}
         IN  IF bad = {} THEN "none"
             ELSE IF ~IsIntLit(idx[Min(bad)]) THEN "ValueError" ELSE "IndexError"

Names(st, s, n) ==
    LET idx == Prefix(s, n)
    IN  [k \in 1..Len(idx) |-> Item(st.adict[st.res[1]], IntVal(idx[k]) - 1)]

\* table[int(s[k])]
CodeErr(table, s, k) ==
    IF ~HasItem(s, k) THEN "IndexError"
    ELSE IF ~IsIntLit(Item(s, k)) THEN "ValueError"
    ELSE IF ~HasItem(table, IntVal(Item(s, k))) THEN "IndexError"
    ELSE "none"

CodeType(table, s, k) == Item(table, IntVal(Item(s, k)))

\* A fault: the bonus is not added to the field indices.
ShiftedVDW_NoShift(bonus) == Dict({<<4, "S">>, <<5, "T">>})

\* The entries of pdict an atomtypes line with bonus optional fields installs.
ShiftedVDW(bonus) == Dict({<<4 + bonus, "S">>, <<5 + bonus, "T">>})
ShiftedVDW_BHAM(bonus) == Dict({<<4 + bonus, "A">>, <<5 + bonus, "B">>, <<6 + bonus, "C">>})

\* A fault: the entries are left as they stand while the line is fed.
ShiftPdict_Never(pd, bonus) == pd

\* A fault: the entries of the pairwise types are moved as well.
ShiftPdict_PairsToo(pd, bonus) ==
    IF bonus > 0
    THEN [pd EXCEPT !["VDW"] = ShiftedVDW(bonus), !["VDW_BHAM"] = ShiftedVDW_BHAM(bonus),
                    !["VPAIR"] = ShiftedVDW(bonus), !["VPAIR_BHAM"] = ShiftedVDW_BHAM(bonus)]
    ELSE pd

\* A fault: the entries are installed for a line without optional fields too.
ShiftPdict_Always(pd, bonus) ==
    IF bonus >= 0
    THEN [pd EXCEPT !["VDW"] = ShiftedVDW(bonus), !["VDW_BHAM"] = ShiftedVDW_BHAM(bonus)]
    ELSE pd

\* A fault: the current entries are moved by bonus fields.
ShiftPdict_Cumulative(pd, bonus) ==
    LET Moved(d) == [f \in {g + bonus : g \in DOMAIN d} |-> d[f - bonus]]
    IN  IF bonus > 0
        THEN [pd EXCEPT !["VDW"] = Moved(pd["VDW"]), !["VDW_BHAM"] = Moved(pd["VDW_BHAM"])]
        ELSE pd

ShiftPdict(pd, bonus) ==
    IF bonus > 0
    THEN [pd EXCEPT !["VDW"] = ShiftedVDW(bonus), !["VDW_BHAM"] = ShiftedVDW_BHAM(bonus)]
    ELSE pd

FeedDefaults(st, s) ==
    IF ~IsIntLit(Item(s, 0)) THEN Branch(st, <<>>, "ValueError")
    ELSE Branch([st EXCEPT !.nbtype = Some(IntVal(Item(s, 0)))], <<>>, "none")

FeedMoleculetype(st, s) == Branch([st EXCEPT !.res = Some(Item(s, 0))], <<>>, "none")

\* A fault: an atomtypes line that is too short is passed over.
FeedAtomtypes_SkipsShort(st, l) ==
    LET atype == Atypes[l]
        st1   == [st EXCEPT !.pdict = ShiftPdict(st.pdict, atype.bonus)]
        table == fdict["atomtypes"]
    IN  IF atype.status = "ValueError" THEN Branch(st, <<>>, "ValueError")
        ELSE IF atype.status = "None" THEN Branch(st, <<>>, "none")
        ELSE IF st.nbtype = None THEN Branch(st1, Chars(atype.atomtype), "TypeError")
        ELSE IF ~HasItem(table, st.nbtype[1]) THEN Branch(st1, Chars(atype.atomtype), "IndexError")
        ELSE Branch([st1 EXCEPT !.itype = Item(table, st.nbtype[1])],
                    Chars(atype.atomtype), "none")

\* atom is the type name, a string: the ordering rule and join below see
\* its characters.
FeedAtomtypes(st, l) ==
    LET atype == Atypes[l]
        st1   == [st EXCEPT !.pdict = ShiftPdict(st.pdict, atype.bonus)]
        table == fdict["atomtypes"]
    IN  IF atype.status = "ValueError" THEN Branch(st, <<>>, "ValueError")
        ELSE IF atype.status = "None" THEN Branch(st, <<>>, "TypeError")
        ELSE IF st.nbtype = None THEN Branch(st1, Chars(atype.atomtype), "TypeError")
        ELSE IF ~HasItem(table, st.nbtype[1]) THEN Branch(st1, Chars(atype.atomtype), "IndexError")
        ELSE Branch([st1 EXCEPT !.itype = Item(table, st.nbtype[1])],
                    Chars(atype.atomtype), "none")

\* A fault: a nonbond_params line is given the type of an atomtypes line.
FeedNonbondParams_AtomTable(st, s) ==
    IF ~HasItem(s, 1) THEN Branch(st, <<>>, "IndexError")
    ELSE LET at == <<Item(s, 0), Item(s, 1)>>
         IN  IF st.nbtype = None THEN Branch(st, at, "TypeError")
             ELSE IF ~HasItem(nftypes, st.nbtype[1]) THEN Branch(st, at, "IndexError")
             ELSE Branch([st EXCEPT !.itype = Item(nftypes, st.nbtype[1])], at, "none")

FeedNonbondParams(st, s) ==
    IF ~HasItem(s, 1) THEN Branch(st, <<>>, "IndexError")
    ELSE LET at == <<Item(s, 0), Item(s, 1)>>
         IN  IF st.nbtype = None THEN Branch(st, at, "TypeError")
             ELSE IF ~HasItem(pftypes, st.nbtype[1]) THEN Branch(st, at, "IndexError")
             ELSE Branch([st EXCEPT !.itype = Item(pftypes, st.nbtype[1])], at, "none")

\* A fault: a residue met again starts a new list.
setdefault_overwrite(d, k, x) == (k :> <<x>>) @@ d

setdefault_append(d, k, x) ==
    IF k \in DOMAIN d THEN [d EXCEPT ![k] = Append(@, x)] ELSE (k :> <<x>>) @@ d

FeedAtoms(st, s) ==
    IF ~HasItem(s, 4) THEN Branch(st, <<>>, "IndexError")
    ELSE Branch([st EXCEPT !.itype = Some("COUL"),
                           !.adict = setdefault_append(st.adict, Item(s, 3), Item(s, 4))],
                <<Item(s, 4)>>, "none")

FeedQtpie(st, s) == Branch([st EXCEPT !.itype = Some("QTPIE")], <<Item(s, 0)>>, "none")

\* A fault: the code of every section is looked up in the table of bonds.
FeedTopol_BondTable(st, s, n) ==
    LET table == fdict["bonds"]
    IN  IF NamesErr(st, s, n) # "none" THEN Branch(st, <<>>, NamesErr(st, s, n))
        ELSE IF CodeErr(table, s, n) # "none" THEN Branch(st, Names(st, s, n), CodeErr(table, s, n))
        ELSE Branch([st EXCEPT !.itype = CodeType(table, s, n)], Names(st, s, n), "none")

\* A fault: a failed lookup of the atom names is passed over.
FeedTopol_Lenient(st, s, n) ==
    LET table == fdict[st.sec[1]]
    IN  IF NamesErr(st, s, n) # "none" THEN Branch(st, <<>>, "none")
        ELSE IF CodeErr(table, s, n) # "none" THEN Branch(st, Names(st, s, n), CodeErr(table, s, n))
        ELSE Branch([st EXCEPT !.itype = CodeType(table, s, n)], Names(st, s, n), "none")

\* A fault: a residue without atom table is taken to have no atoms to name.
FeedTopol_NoTableNoAtoms(st, s, n) ==
    LET table == fdict[st.sec[1]]
    IN  IF NamesErr(st, s, n) = "KeyError"
        THEN (IF CodeErr(table, s, n) # "none" THEN Branch(st, <<>>, CodeErr(table, s, n))
              ELSE Branch([st EXCEPT !.itype = CodeType(table, s, n)], <<>>, "none"))
        ELSE IF NamesErr(st, s, n) # "none" THEN Branch(st, <<>>, NamesErr(st, s, n))
        ELSE IF CodeErr(table, s, n) # "none" THEN Branch(st, Names(st, s, n), CodeErr(table, s, n))
        ELSE Branch([st EXCEPT !.itype = CodeType(table, s, n)], Names(st, s, n), "none")

\* bonds, angles, dihedrals (n = 2, 3, 4): atom names through adict.
FeedTopol(st, s, n) ==
    LET table == fdict[st.sec[1]]
    IN  IF NamesErr(st, s, n) # "none" THEN Branch(st, <<>>, NamesErr(st, s, n))
        ELSE IF CodeErr(table, s, n) # "none" THEN Branch(st, Names(st, s, n), CodeErr(table, s, n))
        ELSE Branch([st EXCEPT !.itype = CodeType(table, s, n)], Names(st, s, n), "none")

\* A fault: the name of the current residue is put before the type names.
FeedTypes_ResidueFirst(st, s, n) ==
    LET table == fdict[st.sec[1]]
        names == (IF st.res = None THEN <<>> ELSE <<st.res[1]>>) \o Prefix(s, n)
    IN  IF ~HasItem(s, n - 1) THEN Branch(st, <<>>, "IndexError")
        ELSE IF CodeErr(table, s, n) # "none" THEN Branch(st, names, CodeErr(table, s, n))
        ELSE Branch([st EXCEPT !.itype = CodeType(table, s, n)], names, "none")

\* A fault: the type names are read one field too far to the right.
FeedTypes_FromSecond(st, s, n) ==
    LET table == fdict[st.sec[1]]
        names == [k \in 1..n |-> Item(s, k)]
    IN  IF ~HasItem(s, n) THEN Branch(st, <<>>, "IndexError")
        ELSE IF CodeErr(table, s, n) # "none" THEN Branch(st, names, CodeErr(table, s, n))
        ELSE Branch([st EXCEPT !.itype = CodeType(table, s, n)], names, "none")

\* A fault: a code beyond the table takes the table's last entry.
FeedTypes_ClampsCode(st, s, n) ==
    LET table == fdict[st.sec[1]]
    IN  IF ~HasItem(s, n - 1) THEN Branch(st, <<>>, "IndexError")
        ELSE IF CodeErr(table, s, n) = "IndexError" /\ HasItem(s, n) /\ IsIntLit(Item(s, n))
             THEN Branch([st EXCEPT !.itype = Item(table, -1)], Prefix(s, n), "none")
        ELSE IF CodeErr(table, s, n) # "none" THEN Branch(st, Prefix(s, n), CodeErr(table, s, n))
        ELSE Branch([st EXCEPT !.itype = CodeType(table, s, n)], Prefix(s, n), "none")

\* bondtypes, angletypes, dihedraltypes (n = 2, 3, 4): the fields as they are.
FeedTypes(st, s, n) ==
    LET table == fdict[st.sec[1]]
    IN  IF ~HasItem(s, n - 1) THEN Branch(st, <<>>, "IndexError")
        ELSE IF CodeErr(table, s, n) # "none" THEN Branch(st, Prefix(s, n), CodeErr(table, s, n))
        ELSE Branch([st EXCEPT !.itype = CodeType(table, s, n)], Prefix(s, n), "none")

\* A fault: the multiplicity is read from field 6.
Multiplicity_Field6(b, s) ==
    IF b.err = "none" /\ b.st.itype = Some("PDIHS") /\ Len(s) >= 7
    THEN [b EXCEPT !.st.itype = Some("PDIHS" \o Item(s, 6))]
    ELSE b

\* if self.itype == 'PDIHS' and len(s) >= 7: self.itype += s[7]
Multiplicity(b, s) ==
    IF b.err = "none" /\ b.st.itype = Some("PDIHS") /\ Len(s) >= 7
    THEN IF ~HasItem(s, 7) THEN [b EXCEPT !.err = "IndexError"]
         ELSE [b EXCEPT !.st.itype = Some("PDIHS" \o Item(s, 7))]
    ELSE b

\* A fault: the code of a virtual site is read one field too far to the left.
FeedVsite_CodeOneLeft(st, s, k) ==
    LET table == fdict[st.sec[1]]
    IN  IF CodeErr(table, s, k - 1) # "none"
        THEN Branch(st, <<Item(s, 0)>>, CodeErr(table, s, k - 1))
        ELSE Branch([st EXCEPT !.itype = CodeType(table, s, k - 1)], <<Item(s, 0)>>, "none")

\* virtual_sites2, 3, 4: the code is field k = 3, 4, 5.
FeedVsite(st, s, k) ==
    LET table == fdict[st.sec[1]]
    IN  IF CodeErr(table, s, k) # "none" THEN Branch(st, <<Item(s, 0)>>, CodeErr(table, s, k))
        ELSE Branch([st EXCEPT !.itype = CodeType(table, s, k)], <<Item(s, 0)>>, "none")

\* A fault: the list is reversed when its first element sorts before its last.
Canonical_Descending(at) ==
    IF Len(at) > 1 /\ StrGT(Item(at, -1), Item(at, 0)) THEN Reverse(at) ELSE at

\* A fault: the first element is compared with the second.
Canonical_FirstSecond(at) ==
    IF Len(at) > 1 /\ StrGT(Item(at, 0), Item(at, 1)) THEN Reverse(at) ELSE at

\* A fault: the list is reversed when its ends are equal, too.
Canonical_OnEqual(at) ==
    IF Len(at) > 1 /\ ~StrGT(Item(at, -1), Item(at, 0)) THEN Reverse(at) ELSE at

\* if len(atom) > 1 and atom[0] > atom[-1]: atom = atom[::-1]
Canonical(at) ==
    IF Len(at) > 1 /\ StrGT(Item(at, 0), Item(at, -1)) THEN Reverse(at) ELSE at

\* The end of the call for a line that went through the case statement.
End(b) ==
    IF b.err # "none"
    THEN b.st @@ [atom |-> b.atom, ret |-> Raised, err |-> b.err]
    ELSE [b.st EXCEPT !.suffix = Join(Canonical(b.atom))]
         @@ [atom |-> Canonical(b.atom), ret |-> ReturnedNone, err |-> "none"]

\* A fault: the suffix of the previous line is cleared as well.
NoClassification_ClearsSuffix(st) ==
    [st EXCEPT !.suffix = ""]
    @@ [atom |-> <<>>, ret |-> Returned(<<PyNone, PyNone>>), err |-> "none"]

\* return None, None
NoClassification(st) ==
    st @@ [atom |-> <<>>, ret |-> Returned(<<PyNone, PyNone>>), err |-> "none"]

\* A fault: the reader forgets its section when it is confused.
Confused_ForgetsSection(st) ==
    [st EXCEPT !.sec = Some("")]
    @@ [atom |-> <<>>, ret |-> Returned(<<PyEmptyList, PyStr("Confused")>>), err |-> "none"]

\* return [],"Confused"
Confused(st) ==
    st @@ [atom |-> <<>>, ret |-> Returned(<<PyEmptyList, PyStr("Confused")>>), err |-> "none"]

feed(st, l) ==
    LET s   == Tokens[l]
        st0 == [st EXCEPT !.itype = None]
        is(name) == st.sec = Some(name)
    IN  IF Len(s) = 0 \/ IsComment(l)
        THEN NoClassification(st0)
        ELSE IF IsHeader(l) THEN End(Branch([st0 EXCEPT !.sec = Some(SecName(l))], <<>>, "none"))
        ELSE IF is("defaults") THEN End(FeedDefaults(st0, s))
        ELSE IF is("moleculetype") THEN End(FeedMoleculetype(st0, s))
        ELSE IF is("atomtypes") THEN End(FeedAtomtypes(st0, l))
        ELSE IF is("nonbond_params") THEN End(FeedNonbondParams(st0, s))
        ELSE IF is("atoms") THEN End(FeedAtoms(st0, s))
        ELSE IF is("qtpie") THEN End(FeedQtpie(st0, s))
        ELSE IF is("bonds") THEN End(FeedTopol(st0, s, 2))
        ELSE IF is("bondtypes") THEN End(FeedTypes(st0, s, 2))
        ELSE IF is("angles") THEN End(FeedTopol(st0, s, 3))
        ELSE IF is("angletypes") THEN End(FeedTypes(st0, s, 3))
        ELSE IF is("dihedrals") THEN End(Multiplicity(FeedTopol(st0, s, 4), s))
        ELSE IF is("dihedraltypes") THEN End(Multiplicity(FeedTypes(st0, s, 4), s))
        ELSE IF is("virtual_sites2") THEN End(FeedVsite(st0, s, 3))
        ELSE IF is("virtual_sites3") THEN End(FeedVsite(st0, s, 4))
        ELSE IF is("virtual_sites4") THEN End(FeedVsite(st0, s, 5))
        ELSE Confused(st0)

----------------------------------------------------------------------------
(* The state machine *)

\* The reader's fields and the module's pdict, as feed reads and writes them.
Cur == [sec |-> sec, nbtype |-> nbtype, res |-> res, adict |-> adict,
        pdict |-> pdict, itype |-> itype, suffix |-> suffix]

\* ITP_Reader(fnm): the state after construction.  itype and suffix are set
\* by the base class; feed overwrites itype in every call.
Init ==
    /\ fnm \in Files
    /\ place = Top
    /\ sec = None
    /\ nbtype = None
    /\ res = None
    /\ adict = EmptyDict
    /\ pdict = pdict_initial
    /\ itype = None
    /\ suffix = ""
    /\ atom = <<>>
    /\ ret = NotCalled
    /\ err = "none"
    /\ line = ""
    /\ bonuses = {}
    /\ built = 1

\* l is a data line: not blank, no comment line, no section header.
IsData(l) == l \in AllLines /\ Len(Tokens[l]) > 0 /\ ~IsComment(l) /\ ~IsHeader(l)

\* The lines the caller may read next: a header, a line that stands
\* anywhere, or a line of the section it is in.
NextLines == Headers[fnm] \cup LinesAt[fnm][place]

\* The caller reads one line of the file and feeds it.  The reader keeps
\* its fields when feed raises, so a caller that catches the exception may
\* go on feeding.
Feed ==
    /\ \E l \in NextLines :
          \E r \in {feed(Cur, l)} :
              /\ \A k \in DOMAIN r.adict : Len(r.adict[k]) <= MaxAtoms
              /\ sec' = r.sec
              /\ nbtype' = r.nbtype
              /\ res' = r.res
              /\ adict' = r.adict
              /\ pdict' = r.pdict
              /\ itype' = r.itype
              /\ suffix' = r.suffix
              /\ atom' = r.atom
              /\ ret' = r.ret
              /\ err' = r.err
              /\ line' = l
              /\ place' = IF l \in Headers[fnm] THEN l ELSE place
              /\ bonuses' = IF sec = Some("atomtypes") /\ IsData(l) /\ Atypes[l].status = "ok"
                            THEN bonuses \cup {Atypes[l].bonus}
                            ELSE bonuses
    /\ UNCHANGED <<fnm, built>>

\* The caller constructs another reader, for any file, and feeds that one
\* from now on.  __init__ gives the new reader its own fields and binds its
\* pdict to the module's pdict, which is left as the calls so far made it;
\* the readers built before keep their reference to the same pdict.
Construct ==
    /\ built < MaxReaders
    /\ built' = built + 1
    /\ fnm' \in Files
    /\ place' = Top
    /\ sec' = None
    /\ nbtype' = None
    /\ res' = None
    /\ adict' = EmptyDict
    /\ itype' = None
    /\ suffix' = ""
    /\ atom' = <<>>
    /\ ret' = NotCalled
    /\ err' = "none"
    /\ line' = ""
    /\ UNCHANGED <<pdict, bonuses>>

\* One reader fed the lines of its file.
Next == Feed

Spec == Init /\ [][Next]_vars

\* A program that builds up to MaxReaders readers, one after the other.
NextReaders == Feed \/ Construct

SpecReaders == Init /\ [][NextReaders]_vars

----------------------------------------------------------------------------
(* Vocabulary of the properties *)

\* The last call was given a data line while the section was name.
DataIn(name) == IsData(line) /\ sec = Some(name)

\* The fields of the line given to the last call.
Fields == Tokens[line]

\* The number of atom indices of a line of the current section.
AtomCount ==
    CASE sec \in {Some("bonds"), Some("bondtypes")}         -> 2
      [] sec \in {Some("angles"), Some("angletypes")}       -> 3
      [] sec \in {Some("dihedrals"), Some("dihedraltypes")} -> 4
      [] OTHER                                              -> 0

\* The atoms registered for the current residue.
Registered == IF res # None /\ res[1] \in DOMAIN adict THEN adict[res[1]] ELSE <<>>

\* The first n fields are indices of registered atoms.
IndicesResolve(n) ==
    /\ Len(Fields) >= n
    /\ \A k \in 1..n : IsIntLit(Fields[k]) /\ IntVal(Fields[k]) \in 1..Len(Registered)

\* The names at the indices the first n fields give, in field order.
NamesAtIndices(n) == [k \in 1..n |-> Registered[IntVal(Fields[k])]]

\* Field n (counted from 0) is a code of the current section's table.
CodeInTable(n) ==
    /\ Len(Fields) > n
    /\ IsIntLit(Fields[n + 1])
    /\ IntVal(Fields[n + 1]) \in 0..(Len(fdict[sec[1]]) - 1)

TableEntry(n) == fdict[sec[1]][IntVal(Fields[n + 1]) + 1]

\* tuple with its two ends in lexicographic order.
Ordered(tuple) ==
    IF Len(tuple) > 1 /\ StrGT(tuple[1], tuple[Len(tuple)]) THEN Reverse(tuple) ELSE tuple

\* l2 lists the first n fields of l in reversed order and is l otherwise.
IsReversalOf(l2, l, n) ==
    /\ Len(Tokens[l2]) = Len(Tokens[l])
    /\ Len(Tokens[l]) >= n
    /\ \A k \in 1..Len(Tokens[l]) :
          Tokens[l2][k] = IF k <= n THEN Tokens[l][n + 1 - k] ELSE Tokens[l][k]

----------------------------------------------------------------------------
(* C1 *)

----------------------------------------------------------------------------
(* C2 *)

\* C2: a bonds, angles or dihedrals data line one of whose atom indices is
\* greater than the number of atoms registered for the current residue
\* raises a lookup failure (IndexError, or KeyError when the residue has no
\* table) and produces no classification.
C2_IndexBeyondTableRaises ==
    \A name \in {"bonds", "angles", "dihedrals"} :
        ( /\ DataIn(name)
          /\ \A k \in 1..AtomCount : k <= Len(Fields) => IsIntLit(Fields[k])
          /\ \E k \in 1..AtomCount : k <= Len(Fields) /\ IntVal(Fields[k]) > Len(Registered) )
        => /\ err \in {"IndexError", "KeyError"}
           /\ itype = None
           /\ ret = Raised

C2_Witness ==
    /\ line = "1 5 1\n"
    /\ sec = Some("bonds")
    /\ res = Some("WAT")
    /\ Len(Registered) = 4
    /\ err = "IndexError"

----------------------------------------------------------------------------
(* C3 *)

\* The suffix of a list of atom names.
SuffixOf(tuple) == Join(Canonical(tuple))

\* C3: when a bonds or angles data line is classified, the line that lists
\* its atoms in reversed order, fed with the same atom table, is classified
\* with the same suffix; and every list of two or three names of the atom
\* table has the suffix of its reversal.
C3_ReversedLineSameSuffix ==
    \A name \in {"bonds", "angles"} :
        (DataIn(name) /\ err = "none")
        => /\ \A l2 \in AllLines :
                 IsReversalOf(l2, line, AtomCount)
                 => feed(Cur, l2).err = "none" /\ feed(Cur, l2).suffix = suffix
           /\ \A n \in 2..3 : \A tuple \in [1..n -> {Registered[i] : i \in 1..Len(Registered)}] :
                 SuffixOf(Reverse(tuple)) = SuffixOf(tuple)

C3_Witness ==
    /\ line = "3 2 1 1 109.5 400.0\n"
    /\ sec = Some("angles")
    /\ err = "none"
    /\ IndicesResolve(3)
    /\ atom = Reverse(NamesAtIndices(3))
    /\ atom[1] # atom[3]
    /\ feed(Cur, "1 2 3 1 109.5 400.0\n").suffix = suffix

----------------------------------------------------------------------------
(* C4 *)

\* C4: when a dihedrals or dihedraltypes data line is classified, the line
\* that lists its four atoms in reversed order is classified with the same
\* suffix, also when the first and last atom are equal and the middle two
\* differ.
C4_ReversedDihedralSameSuffix ==
    \A name \in {"dihedrals", "dihedraltypes"} :
        (DataIn(name) /\ err = "none")
        => \A l2 \in AllLines :
              IsReversalOf(l2, line, AtomCount)
              => feed(Cur, l2).err = "none" /\ feed(Cur, l2).suffix = suffix

----------------------------------------------------------------------------
(* C5 *)

\* C5: the ordering rule applied to the tuple of 2, 3 or 4 atom names a
\* classified line ended with gives that tuple again, and so the same suffix.
C5_CanonicalIdempotent ==
    \A name \in {"nonbond_params", "bonds", "bondtypes", "angles", "angletypes",
                 "dihedrals", "dihedraltypes"} :
        (DataIn(name) /\ err = "none")
        => /\ Len(atom) \in 2..4
           /\ Canonical(atom) = atom
           /\ Join(Canonical(atom)) = suffix

C5_Witness ==
    /\ line = "CT OS CT CT 1 0.0 1.0 3\n"
    /\ sec = Some("dihedraltypes")
    /\ err = "none"
    /\ atom = <<"CT", "OS", "CT", "CT">>
    /\ suffix = "CTOSCTCT"

----------------------------------------------------------------------------
(* C6 *)

\* C6: a dihedrals (with resolving atom indices) or dihedraltypes data line
\* with function code 1 and at least 8 fields gets the interaction type
\* PDIHS followed by field 7: PDIHS3 for multiplicity 3, PDIHS1 for 1.
C6_MultiplicityAppended ==
    \A name \in {"dihedrals", "dihedraltypes"} :
        ( /\ DataIn(name)
          /\ name = "dihedrals" => IndicesResolve(4)
          /\ Len(Fields) >= 8
          /\ Fields[5] = "1" )
        => /\ err = "none"
           /\ itype = Some("PDIHS" \o Fields[8])
           /\ Fields[8] = "3" => itype = Some("PDIHS3")
           /\ Fields[8] = "1" => itype = Some("PDIHS1")

C6_Witness ==
    /\ line = "1 2 3 4 1 180.0 5.0 3\n"
    /\ sec = Some("dihedrals")
    /\ itype = Some("PDIHS3")
    /\ ret = ReturnedNone

----------------------------------------------------------------------------
(* C7, C8, C9 *)

\* The last call parsed an atomtypes data line with b optional fields.
AtomtypeFed(b) ==
    DataIn("atomtypes") /\ Atypes[line].status = "ok" /\ Atypes[line].bonus = b

\* dict has the names of base, each at a field index k greater.
ShiftedBy(dict, base, k) ==
    /\ DOMAIN dict = {f + k : f \in DOMAIN base}
    /\ \A f \in DOMAIN base : dict[f + k] = base[f]

VdwShiftedBy(k) ==
    /\ ShiftedBy(pdict["VDW"], pdict_initial["VDW"], k)
    /\ ShiftedBy(pdict["VDW_BHAM"], pdict_initial["VDW_BHAM"], k)

\* C7: feeding an atomtypes data line without optional fields leaves the
\* VDW and VDW_BHAM entries of pdict as they were before the call.
C7_ZeroBonusKeepsVdw ==
    [][AtomtypeFed(0)' =>
          /\ pdict'["VDW"] = pdict["VDW"]
          /\ pdict'["VDW_BHAM"] = pdict["VDW_BHAM"]]_vars

C7_Witness ==
    /\ AtomtypeFed(0)
    /\ line = "C 12.0107 0.0000 A 3.7500e-01 4.3932e-01\n"
    /\ VdwShiftedBy(1)
    /\ err = "none"

\* C8 as stated: once an atomtypes line with one optional field has been
\* fed, the parameter names of the interaction type of every later
\* nonbond_params line stand one field further than in the table without
\* optional fields.
C8_NonbondNamesShifted ==
    (1 \in bonuses /\ DataIn("nonbond_params") /\ err = "none" /\ itype # None)
    => ShiftedBy(pdict[itype[1]], pdict_initial[itype[1]], 1)

\* C8 amended: an atomtypes line with one optional field leaves the VDW and
\* VDW_BHAM entries, the types of atomtypes lines, with every parameter
\* name one field further than without optional fields; they stay so until
\* an atomtypes line with two optional fields is fed; and a nonbond_params
\* line gets a pairwise type, whose names stand at the fields they had at
\* the start.
C8_VdwNamesShifted ==
    [][/\ AtomtypeFed(1)' => VdwShiftedBy(1)'
       /\ (VdwShiftedBy(1) /\ ~AtomtypeFed(2)') => VdwShiftedBy(1)'
       /\ (DataIn("nonbond_params")' /\ err' = "none" /\ itype' # None)
          => /\ itype' \in {Some("VPAIR"), Some("VPAIR_BHAM")}
             /\ pdict'[itype'[1]] = pdict_initial[itype'[1]]]_vars

C8_Witness ==
    /\ 1 \in bonuses
    /\ 2 \notin bonuses
    /\ line = "C Na 1 0.3 0.4\n"
    /\ sec = Some("nonbond_params")
    /\ itype = Some("VPAIR")
    /\ VdwShiftedBy(1)

\* C9: an atomtypes line with b = 1 or 2 optional fields leaves VDW with
\* exactly the fields 4+b, 5+b for S, T and VDW_BHAM with exactly 4+b, 5+b,
\* 6+b for A, B, C; fed when the entries stand so already, it leaves pdict
\* as it was.
C9_ShiftNotCumulative ==
    [][\A b \in {1, 2} :
          AtomtypeFed(b)' =>
             /\ pdict'["VDW"] = Dict({<<4 + b, "S">>, <<5 + b, "T">>})
             /\ pdict'["VDW_BHAM"] = Dict({<<4 + b, "A">>, <<5 + b, "B">>, <<6 + b, "C">>})
             /\ VdwShiftedBy(b) => pdict' = pdict]_vars

C9_Witness ==
    /\ AtomtypeFed(2)
    /\ bonuses = {2}
    /\ pdict["VDW"] = Dict({<<6, "S">>, <<7, "T">>})
    /\ pdict["VDW_BHAM"] = Dict({<<6, "A">>, <<7, "B">>, <<8, "C">>})
    /\ suffix = "531_slpo"

----------------------------------------------------------------------------
(* C10 *)

\* C10: for a data line classified in one of the interaction sections, feed
\* returns the pair of the interaction type and the suffix of that line.
C10_ReturnsClassification ==
    \A name \in DOMAIN fdict \cup {"atoms", "qtpie"} :
        (DataIn(name) /\ err = "none")
        => ret = Returned(<<PyOpt(itype), PyStr(suffix)>>)

----------------------------------------------------------------------------
(* C11 *)

\* C11: a classified atomtypes data line has the one-element list of its
\* primary type name as atom tuple, and the name itself as suffix.
C11_AtomtypeSuffixIsName ==
    (DataIn("atomtypes") /\ err = "none")
    => /\ atom = <<Atypes[line].atomtype>>
       /\ suffix = Atypes[line].atomtype

----------------------------------------------------------------------------
(* C12 *)

\* The identifier of the parameter at a field of the line last fed:
\* interaction type, parameter name, suffix.
ParameterID(field) == itype[1] \o pdict[itype[1]][field] \o suffix

\* C12: a classified bondtypes, angletypes or dihedraltypes line has its
\* first 2, 3 or 4 fields, as they are written, as atom tuple (in canonical
\* order).  After [ angletypes ], 'CA CB O 1 109.47 350.00' gets the type
\* ANGLES and the suffix CACBO, its fields 4 and 5 the identifiers
\* ANGLESBCACBO and ANGLESKCACBO; 'H O H 5 ...' gets UREY_BRADLEY and HOH.
C12_TypeLineIdentifiers ==
    /\ \A name \in {"bondtypes", "angletypes", "dihedraltypes"} :
          (DataIn(name) /\ err = "none")
          => /\ Len(Fields) >= AtomCount
             /\ atom = Ordered(Prefix(Fields, AtomCount))
             /\ suffix = Join(atom)
    /\ (DataIn("angletypes") /\ Len(Fields) >= 6
          /\ Prefix(Fields, 6) = <<"CA", "CB", "O", "1", "109.47", "350.00">>)
       => /\ err = "none"
          /\ itype = Some("ANGLES")
          /\ atom = <<"CA", "CB", "O">>
          /\ suffix = "CACBO"
          /\ ParameterID(4) = "ANGLESBCACBO"
          /\ ParameterID(5) = "ANGLESKCACBO"
    /\ (DataIn("angletypes") /\ Len(Fields) >= 4
          /\ Prefix(Fields, 4) = <<"H", "O", "H", "5">>)
       => /\ err = "none"
          /\ itype = Some("UREY_BRADLEY")
          /\ suffix = "HOH"

C12_Witness ==
    /\ sec = Some("angletypes")
    /\ line = "CA CB O 1 109.47 350.00 ; PARM 4 5\n"
    /\ itype = Some("ANGLES")
    /\ suffix = "CACBO"
    /\ ParameterID(4) = "ANGLESBCACBO"

----------------------------------------------------------------------------
(* C13 *)

\* The line is empty (nothing but whitespace) or begins with ';'.
IsBlankOrComment(l) == l \in AllLines /\ (Len(Tokens[l]) = 0 \/ IsComment(l))

\* C13 as stated: feeding an empty line or a comment line returns
\* (None, None) and leaves section, residue, atom table, nonbonded code,
\* lookup tables and the exposed classification (type and suffix) as they
\* were.
C13_BlankLineChangesNothing ==
    [][IsBlankOrComment(line') =>
          /\ ret' = Returned(<<PyNone, PyNone>>)
          /\ err' = "none"
          /\ <<sec, res, adict, nbtype, pdict>>' = <<sec, res, adict, nbtype, pdict>>
          /\ <<itype, suffix>>' = <<itype, suffix>>]_vars

\* C13 amended: feeding an empty line or a comment line returns
\* (None, None) and leaves section, residue, atom table, nonbonded code,
\* lookup tables and the exposed suffix as they were; the exposed
\* interaction type becomes None.
C13_BlankLineKeepsContext ==
    [][IsBlankOrComment(line') =>
          /\ ret' = Returned(<<PyNone, PyNone>>)
          /\ err' = "none"
          /\ <<sec, res, adict, nbtype, pdict>>' = <<sec, res, adict, nbtype, pdict>>
          /\ suffix' = suffix
          /\ itype' = None]_vars

C13_Witness ==
    /\ line = "; ligand\n"
    /\ sec = Some("atoms")
    /\ ret = Returned(<<PyNone, PyNone>>)
    /\ itype = None
    /\ suffix = "C1"
    /\ Registered = <<"C1">>

----------------------------------------------------------------------------
(* C14 *)

\* The identifier a header line encloses: the text between the opening
\* bracket and the first closing bracket, without the whitespace around it.
EnclosedName(l) ==
    LET close == Min({j \in 2..Len(l) : CharAt(l, j) = "]"})
        inner == SubSeq(l, 2, close - 1)
    IN  IF Len(Split(inner)) = 1 THEN Split(inner)[1] ELSE inner

\* C14: the section changes only in a call given a header line; a header
\* line makes the section the identifier it encloses and yields no
\* classification; so the section is always the one named by the header
\* fed last.
C14_SectionFollowsHeaders ==
    [][/\ sec' # sec => IsHeader(line')
       /\ IsHeader(line') =>
             /\ sec' = Some(EnclosedName(line'))
             /\ err' = "none"
             /\ itype' = None
       /\ place' # Top => sec' = Some(EnclosedName(place'))]_vars

----------------------------------------------------------------------------
(* C15 *)

\* The sections the case statement of feed knows.
RecognizedSections == DOMAIN fdict \cup {"defaults", "moleculetype", "atoms", "qtpie"}

Unrecognized(section) == section = None \/ section[1] \notin RecognizedSections

\* C15: a data line fed while the section is unrecognized, or before any
\* header, returns ([], "Confused"), which is not the pair (None, None),
\* raises nothing and leaves section, residue, atom table, nonbonded code
\* and lookup tables as they were; every line fed next ends as it would
\* have ended without that call.
C15_UnrecognizedSectionSkipped ==
    [][(IsData(line') /\ Unrecognized(sec)) =>
          /\ ret' = Returned(<<PyEmptyList, PyStr("Confused")>>)
          /\ ret' # Returned(<<PyNone, PyNone>>)
          /\ err' = "none"
          /\ <<sec, res, adict, nbtype, pdict>>' = <<sec, res, adict, nbtype, pdict>>
          /\ \A l2 \in AllLines : feed(Cur', l2) = feed(Cur, l2)]_vars

C15_Witness ==
    /\ line = "Water box\n"
    /\ sec = Some("system")
    /\ ret = Returned(<<PyEmptyList, PyStr("Confused")>>)
    /\ nbtype = Some(2)
    /\ VdwShiftedBy(2)

----------------------------------------------------------------------------
(* C16 *)

\* The sections whose lines carry a function-type code, and the field
\* (counted from 0) that holds it.
CodeSections ==
    {"bonds", "bondtypes", "angles", "angletypes", "dihedrals", "dihedraltypes",
     "virtual_sites2", "virtual_sites3", "virtual_sites4"}

CodeField ==
    CASE sec \in {Some("bonds"), Some("bondtypes")}         -> 2
      [] sec \in {Some("angles"), Some("angletypes")}       -> 3
      [] sec \in {Some("dihedrals"), Some("dihedraltypes")} -> 4
      [] sec = Some("virtual_sites2")                       -> 3
      [] sec = Some("virtual_sites3")                       -> 4
      [] sec = Some("virtual_sites4")                       -> 5
      [] OTHER                                              -> 0

\* The line of the last call has an integer in its code field.
HasCode == Len(Fields) > CodeField /\ IsIntLit(Fields[CodeField + 1])

Code == IntVal(Fields[CodeField + 1])

\* The atoms of the line are found: always in a type or virtual-site
\* section, with resolving indices in bonds, angles and dihedrals.
AtomsFound == sec \in {Some("bonds"), Some("angles"), Some("dihedrals")} => IndicesResolve(AtomCount)

\* C16: in a section with a code table, a data line whose code is greater
\* than the largest code of the table raises an error and gets no
\* interaction type; the error is the IndexError of the table lookup
\* whenever the atoms of the line are found.
C16_CodeBeyondTableRaises ==
    \A name \in CodeSections :
        (DataIn(name) /\ HasCode /\ Code > Len(fdict[name]) - 1)
        => /\ err # "none"
           /\ ret = Raised
           /\ itype = None
           /\ AtomsFound => err = "IndexError"

C16_Witness ==
    /\ line = "1 2 3 7 109.5 400.0\n"
    /\ sec = Some("angles")
    /\ IndicesResolve(3)
    /\ err = "IndexError"
    /\ itype = None

----------------------------------------------------------------------------
(* C17 *)

\* C17: a data line whose function-type code is negative raises an error
\* and gets no interaction type; so does an atomtypes or nonbond_params
\* line when the nonbonded function code is negative.
C17_NegativeCodeRaises ==
    /\ \A name \in CodeSections :
          (DataIn(name) /\ HasCode /\ Code < 0 /\ AtomsFound)
          => err # "none" /\ itype = None
    /\ \A name \in {"atomtypes", "nonbond_params"} :
          (DataIn(name) /\ nbtype # None /\ nbtype[1] < 0)
          => err # "none" /\ itype = None

----------------------------------------------------------------------------
(* C18 *)

\* C18: a bonds, angles or dihedrals data line with an atom index of 0 or
\* below raises a lookup failure and gets no interaction type.
C18_NonPositiveIndexRaises ==
    \A name \in {"bonds", "angles", "dihedrals"} :
        ( /\ DataIn(name)
          /\ \A k \in 1..AtomCount : k <= Len(Fields) => IsIntLit(Fields[k])
          /\ \E k \in 1..AtomCount : k <= Len(Fields) /\ IntVal(Fields[k]) <= 0 )
        => /\ err \in {"IndexError", "KeyError"}
           /\ itype = None

----------------------------------------------------------------------------
(* C19 *)

\* C19: a bonds, angles or dihedrals data line fed when no residue is set,
\* or when no atom is registered for the current residue, raises a lookup
\* failure (the KeyError of adict) and gets no classification.
C19_NoAtomTableRaises ==
    \A name \in {"bonds", "angles", "dihedrals"} :
        (DataIn(name) /\ (res = None \/ Registered = <<>>))
        => /\ err = "KeyError"
           /\ ret = Raised
           /\ itype = None

C19_Witness ==
    /\ line = "1 2 3 1 109.5 400.0\n"
    /\ sec = Some("angles")
    /\ res = Some("SOL")
    /\ "LIG" \in DOMAIN adict
    /\ Registered = <<>>
    /\ err = "KeyError"

----------------------------------------------------------------------------
(* C20 *)

\* The number of fields of l before its first ';'.
FieldsBeforeComment(l) == Len(Split(BeforeSemicolon(l)))

\* C20: an atomtypes data line with fewer than 6 fields before its comment
\* gives no atom-type record and makes feed raise (the TypeError of
\* subscripting None); the call leaves no interaction type and the lookup
\* tables as they were.
C20_ShortAtomtypeLineFails ==
    [][(sec = Some("atomtypes") /\ IsData(line') /\ FieldsBeforeComment(line') < 6) =>
          /\ Atypes[line'] = NoAtomtype("None")
          /\ err' = "TypeError"
          /\ ret' = Raised
          /\ itype' = None
          /\ pdict' = pdict]_vars

C20_Witness ==
    /\ line = "HW 1 1.008 0.41 A ; 0.0 0.0\n"
    /\ Len(Fields) = 8
    /\ FieldsBeforeComment(line) = 5
    /\ sec = Some("atomtypes")
    /\ nbtype = Some(1)
    /\ err = "TypeError"
    /\ pdict = pdict_initial


----------------------------------------------------------------------------
(* C21 *)

\* The tables a reader looks names up in: __init__ binds self.pdict to the
\* one dictionary of the module, whichever reader it is.
self_pdict(reader) == pdict

\* C21: the parameter-name tables belong to one reader: a reader built
\* after another one shifted its tables starts from the initial tables, and
\* an atomtypes line with a nonzero bonus fed to the latest reader leaves
\* the tables of every earlier reader as they were.
C21_TablesOwnedByOneReader ==
    [][ /\ built' > built => self_pdict(built')' = pdict_initial
        /\ \A other \in 1..MaxReaders :
               ( /\ other < built
                 /\ built' = built
                 /\ \E b \in 1..2 : AtomtypeFed(b)' )
               => self_pdict(other)' = self_pdict(other) ]_vars

----------------------------------------------------------------------------
(* C22 *)

\* Two lines with the same fields before their comments.
SameBeforeComment(a, b) == Split(BeforeSemicolon(a)) = Split(BeforeSemicolon(b))

\* C22: a trailing comment does not count: a data line of a recognized
\* section gets the interaction type and the suffix that any line with the
\* same fields before the comment gets in the same state.
C22_CommentIsStripped ==
    [][ \A other \in LinesAt[fnm][place] :
            ( /\ IsData(line') /\ IsData(other)
              /\ sec' = sec /\ sec # None /\ sec[1] \in RecognizedSections
              /\ SameBeforeComment(line', other) )
            => \E r \in {feed(Cur, other)} :
                   r.itype = itype' /\ r.suffix = suffix' ]_vars

----------------------------------------------------------------------------
(* C23 *)

\* C23: the nonbonded function code is set once: after a defaults line has
\* set it, no fed line changes it.
C23_NbtypeSetOnce ==
    [][ nbtype # None => nbtype' = nbtype ]_vars

----------------------------------------------------------------------------
(* C24 *)

\* C24 as stated: the entries moved by an atomtypes line with optional
\* fields serve from the next line on: the names looked up for the type of
\* that line itself, once the call has returned, are those of before the
\* call.
C24_ShiftFromNextLine ==
    [][ \A b \in {1, 2} :
            (AtomtypeFed(b)' /\ itype' # None)
            => pdict'[itype'[1]] = pdict[itype'[1]] ]_vars

\* C24 amended: an atomtypes line gets its type from the nonbonded code
\* set before the call, and when it has b = 1 or 2 optional fields the
\* call installs the moved entries before it returns: the names looked up
\* for the type of that line itself stand b fields further than at the
\* start.
C24_ShiftServesItsOwnLine ==
    [][ \A b \in {1, 2} :
            AtomtypeFed(b)' =>
               /\ nbtype' = nbtype
               /\ nbtype = Some(1) => itype' = Some("VDW")
               /\ nbtype = Some(2) => itype' = Some("VDW_BHAM")
               /\ itype' # None
                  => ShiftedBy(pdict'[itype'[1]], pdict_initial[itype'[1]], b) ]_vars

C24_Witness ==
    /\ AtomtypeFed(1)
    /\ bonuses = {1}
    /\ nbtype = Some(1)
    /\ itype = Some("VDW")
    /\ 4 \notin DOMAIN pdict["VDW"]
    /\ ParameterID(5) = "VDWSNa"
    /\ ParameterID(6) = "VDWTNa"

----------------------------------------------------------------------------
(* C25 *)

\* C25: a proper-dihedral type with any multiplicity digit appended has its
\* parameter names in the tables: B at field 5 and K at field 6.
C25_EveryMultiplicityResolves ==
    \A d \in Digits :
        itype = Some("PDIHS" \o d)
        => /\ itype[1] \in DOMAIN pdict
           /\ pdict[itype[1]][5] = "B"
           /\ pdict[itype[1]][6] = "K"

----------------------------------------------------------------------------
(* C26 *)

\* The atoms registered so far under residue name r.
AtomsOf(dict, r) == IF r \in DOMAIN dict THEN dict[r] ELSE <<>>

\* C26: an atoms data line with at least five fields, fed when a
\* moleculetype line has named the residue, gets the type COUL and the
\* single atom name of field 4, and that name is appended to the list of
\* the current residue, at the index one above the list's length.
C26_AtomJoinsCurrentResidue ==
    [][ (DataIn("atoms")' /\ Len(Fields') >= 5 /\ res # None)
        => /\ itype' = Some("COUL")
           /\ atom' = <<Fields'[5]>>
           /\ adict' = setdefault_append(adict, res[1], Fields'[5])
           /\ AtomsOf(adict', res[1])[Len(AtomsOf(adict, res[1])) + 1] = Fields'[5] ]_vars

----------------------------------------------------------------------------
(* C27 *)

\* C27: the atom table only grows: every residue of the table is still in
\* it after the next call, and its list of names as it was is the beginning
\* of its list as it is.
C27_AtomTableOnlyGrows ==
    [][ \A r \in DOMAIN adict :
            /\ r \in DOMAIN adict'
            /\ Len(adict[r]) <= Len(adict'[r])
            /\ SubSeq(adict'[r], 1, Len(adict[r])) = adict[r] ]_vars

C27_Witness ==
    /\ line = "3 OW 2 SOL OW 2 -0.8\n"
    /\ res = Some("LIG")
    /\ DOMAIN adict = {"LIG", "SOL"}
    /\ adict["LIG"] = <<"C1", "O2", "C1">>
    /\ adict["SOL"] = <<"OW">>

----------------------------------------------------------------------------
(* C28 *)

\* The tuple of names the last line gives, in the order of the line: the
\* names of its fields, or the registered names at its atom indices.
GivenTuple ==
    CASE sec = Some("atoms") -> <<Fields[5]>>
      [] sec = Some("nonbond_params") -> SubSeq(Fields, 1, 2)
      [] sec \in {Some("bonds"), Some("angles"), Some("dihedrals")} -> NamesAtIndices(AtomCount)
      [] OTHER -> SubSeq(Fields, 1, AtomCount)

\* C28: the tuple a classified line ends with is the given tuple reversed
\* when its first name sorts strictly after its last, and the given tuple
\* itself otherwise, so also when the two are equal and when there is one
\* name only; the suffix is the names of the resulting tuple joined.
C28_ReversedIffFirstAfterLast ==
    \A name \in {"atoms", "nonbond_params", "bonds", "bondtypes", "angles",
                 "angletypes", "dihedrals", "dihedraltypes"} :
        ( /\ DataIn(name) /\ err = "none"
          /\ name \in {"bonds", "angles", "dihedrals"} => IndicesResolve(AtomCount) )
        => LET first == GivenTuple[1]
               last  == GivenTuple[Len(GivenTuple)]
           IN  /\ (Len(GivenTuple) > 1 /\ StrGT(first, last)) => atom = Reverse(GivenTuple)
               /\ ~(Len(GivenTuple) > 1 /\ StrGT(first, last)) => atom = GivenTuple
               /\ suffix = Join(atom)

C28_Witness ==
    /\ line = "CT CT OS CT 1 0.0 1.0 3\n"
    /\ sec = Some("dihedraltypes")
    /\ GivenTuple[1] = GivenTuple[4]
    /\ atom = <<"CT", "CT", "OS", "CT">>
    /\ atom # Reverse(atom)
    /\ suffix = "CTCTOSCT"

----------------------------------------------------------------------------
(* C29 *)

\* C29: a defaults data line sets the nonbonded code to its first field
\* read as an integer, a moleculetype data line sets the residue name to
\* its first field; both return the pair (None, None), leave no interaction
\* type, and leave the section, the atom table, the parameter tables and
\* the other of the two fields as they were.
C29_DefaultsAndMoleculetype ==
    [][ /\ (DataIn("defaults")' /\ IsIntLit(Fields'[1]))
           => nbtype' = Some(IntVal(Fields'[1])) /\ res' = res
        /\ DataIn("moleculetype")'
           => res' = Some(Fields'[1]) /\ nbtype' = nbtype
        /\ ( \/ DataIn("defaults")' /\ IsIntLit(Fields'[1])
             \/ DataIn("moleculetype")' )
           => /\ ret' = Returned(<<PyNone, PyNone>>)
              /\ itype' = None
              /\ sec' = sec /\ adict' = adict /\ pdict' = pdict ]_vars

----------------------------------------------------------------------------
(* C30 *)

\* C30: with the nonbonded code 1 or 2, a well-formed atomtypes line gets
\* the type VDW or VDW_BHAM, and a nonbond_params line with two fields or
\* more gets VPAIR or VPAIR_BHAM and the tuple of its fields 0 and 1, put
\* in order; with the code unset, a data line of either section raises an
\* error and gets no type.
C30_NonbondedCodeSelectsType ==
    /\ \A c \in {1, 2} :
          nbtype = Some(c)
          => /\ (DataIn("atomtypes") /\ Atypes[line].status = "ok")
                => /\ err = "none"
                   /\ itype = Some(IF c = 1 THEN "VDW" ELSE "VDW_BHAM")
             /\ (DataIn("nonbond_params") /\ Len(Fields) >= 2)
                => /\ err = "none"
                   /\ itype = Some(IF c = 1 THEN "VPAIR" ELSE "VPAIR_BHAM")
                   /\ atom = Ordered(SubSeq(Fields, 1, 2))
                   /\ suffix = Join(atom)
    /\ (nbtype = None /\ (DataIn("atomtypes") \/ DataIn("nonbond_params")))
       => /\ err # "none"
          /\ ret = Raised
          /\ itype = None

C30_Witness ==
    /\ line = "Na C 1 0.3 0.4\n"
    /\ sec = Some("nonbond_params")
    /\ nbtype = Some(2)
    /\ itype = Some("VPAIR_BHAM")
    /\ atom = <<"C", "Na">>
    /\ suffix = "CNa"

----------------------------------------------------------------------------
(* C31 *)

\* C31: a data line of virtual_sites2, 3 or 4 whose code, at field 3, 4 or
\* 5, is 1 or more and within the table of its section gets the single
\* field 0 as its tuple and the entry of that table at the code as its
\* type: VSITE2, VSITE3 or VSITE4FD for code 1, and VSITE3FD, VSITE3FAD,
\* VSITE3OUT for the codes 2, 3, 4 of virtual_sites3.
C31_VirtualSiteType ==
    \A n \in 2..4 :
        LET name  == CASE n = 2 -> "virtual_sites2" [] n = 3 -> "virtual_sites3"
                       [] OTHER -> "virtual_sites4"
            names == CASE n = 2 -> <<"VSITE2">>
                       [] n = 3 -> <<"VSITE3", "VSITE3FD", "VSITE3FAD", "VSITE3OUT">>
                       [] OTHER -> <<"VSITE4FD">>
        IN  DataIn(name)
            => /\ CodeField = n + 1
               /\ (HasCode /\ Code \in 1..Len(names))
                  => /\ err = "none"
                     /\ atom = <<Fields[1]>>
                     /\ suffix = Fields[1]
                     /\ itype = Some(names[Code])
                     /\ itype = fdict[name][Code + 1]

C31_Witness ==
    /\ line = "4 1 2 3 3 0.1 0.1\n"
    /\ sec = Some("virtual_sites3")
    /\ itype = Some("VSITE3FAD")
    /\ atom = <<"4">>
    /\ suffix = "4"
    /\ err = "none"

----------------------------------------------------------------------------
(* C32 *)

\* Residue names and atom tables a reader may hold when a line is fed.
ResidueContexts ==
    {None, Some("LIG"), Some("WAT")}
    \X {EmptyDict, Dict({<<"LIG", <<"C1", "O2">> >>}),
        Dict({<<"WAT", <<"OW", "HW1", "HW2", "MW">> >>, <<"SOL", <<"OW">> >>})}

\* C32: a bondtypes, angletypes or dihedraltypes data line leaves the
\* residue name and the atom table as they were, and gets the type, the
\* suffix and the error it gets in the same state with any other residue
\* name and atom table.
C32_TypeLineIgnoresResidue ==
    [][ \A name \in {"bondtypes", "angletypes", "dihedraltypes"} :
            DataIn(name)'
            => /\ res' = res
               /\ adict' = adict
               /\ \A c \in ResidueContexts :
                    \E r \in {feed([Cur EXCEPT !.res = c[1], !.adict = c[2]], line')} :
                        /\ r.itype = itype'
                        /\ r.suffix = suffix'
                        /\ r.err = err'
                        /\ r.res = c[1]
                        /\ r.adict = c[2] ]_vars

C32_Witness ==
    /\ line = "O CB CA 1 109.47 350.00 ; PARM 4 5\n"
    /\ sec = Some("angletypes")
    /\ itype = Some("ANGLES")
    /\ suffix = "CACBO"
    /\ res = None
    /\ adict = EmptyDict
    /\ feed([Cur EXCEPT !.res = Some("LIG"),
                        !.adict = Dict({<<"LIG", <<"C1", "O2">> >>})], line).suffix = "CACBO"

----------------------------------------------------------------------------
(* C33 *)

\* C33: a dihedrals (with resolving atom indices) or dihedraltypes data
\* line with function code 1 and fewer than 8 fields gets the type PDIHS,
\* nothing appended, and raises no error.
C33_ShortProperDihedral ==
    \A name \in {"dihedrals", "dihedraltypes"} :
        ( /\ DataIn(name)
          /\ name = "dihedrals" => IndicesResolve(4)
          /\ Len(Fields) \in 5..7
          /\ Fields[5] = "1" )
        => /\ err = "none"
           /\ itype = Some("PDIHS")

----------------------------------------------------------------------------
(* C34 *)

\* C34: the record of a parsed atomtypes line has a bonus of 0, 1 or 2, the
\* number of optional fields it has: one when field 1 starts with a letter
\* (the bonded type name), one when the field after it is an integer (the
\* atomic number).  Mass, charge and particle type are the fields 1, 2 and
\* 3 after the bonus, the parameters are the fields from 4 after the bonus
\* on; without a bonded name the record has the type name in its place,
\* without an atomic number it has -1.
C34_AtomtypeRecordElastic ==
    (DataIn("atomtypes") /\ Atypes[line].status = "ok")
    => LET f        == Split(BeforeSemicolon(line))
           a        == Atypes[line]
           named    == CharAt(f[2], 1) \in Letters
           n        == IF named THEN 1 ELSE 0
           numbered == isint(f[2 + n])
           b        == n + (IF numbered THEN 1 ELSE 0)
       IN  /\ a.bonus \in 0..2
           /\ a.bonus = b
           /\ a.atomtype = f[1]
           /\ a.batomtype = (IF named THEN f[2] ELSE f[1])
           /\ a.atomicnum = (IF numbered THEN IntVal(f[2 + n]) ELSE -1)
           /\ a.mass = f[2 + b]
           /\ a.chg = f[3 + b]
           /\ a.ptp = f[4 + b]
           /\ a.param = SubSeq(f, 5 + b, Len(f))
           /\ b \in bonuses

C34_Witness ==
    /\ line = "opls_154 OH 15.9994 -0.683 A 3.12e-01 7.11e-01\n"
    /\ sec = Some("atomtypes")
    /\ Atypes[line].bonus = 1
    /\ Atypes[line].batomtype = "OH"
    /\ Atypes[line].atomicnum = -1
    /\ Atypes[line].mass = "15.9994"
    /\ Atypes[line].ptp = "A"
    /\ Atypes[line].param = <<"3.12e-01", "7.11e-01">>
    /\ bonuses = {0, 1, 2}

----------------------------------------------------------------------------
(* C35 *)

\* C35: whatever lines were fed, pdict has the keys it had at construction
\* and every entry but VDW and VDW_BHAM, those of VPAIR and VPAIR_BHAM
\* included, is as at construction.
C35_OnlyVdwEntriesChange ==
    /\ DOMAIN pdict = DOMAIN pdict_initial
    /\ \A key \in DOMAIN pdict_initial \ {"VDW", "VDW_BHAM"} :
          pdict[key] = pdict_initial[key]
    /\ pdict["VPAIR"] = Dict({<<3, "S">>, <<4, "T">>})
    /\ pdict["VPAIR_BHAM"] = pdict_initial["VPAIR_BHAM"]

C35_Witness ==
    /\ bonuses = {1, 2}
    /\ sec = Some("nonbond_params")
    /\ itype = Some("VPAIR")
    /\ pdict["VDW"] # pdict_initial["VDW"]
    /\ pdict["VDW_BHAM"] # pdict_initial["VDW_BHAM"]
    /\ pdict["VPAIR"] = pdict_initial["VPAIR"]

----------------------------------------------------------------------------
(* C36 *)

\* C36: right after an atomtypes line with b = 0, 1 or 2 optional fields,
\* VDW has exactly the fields 4+b, 5+b and VDW_BHAM exactly 4+b, 5+b, 6+b,
\* whatever atomtypes lines were fed before.
C36_TableMatchesLastAtomtype ==
    \A b \in 0..2 : AtomtypeFed(b) => VdwShiftedBy(b)

----------------------------------------------------------------------------
(* C37 *)

\* C37: a data line of an interaction section fed without an error leaves
\* an interaction type, and that type is a key of pdict.
C37_TypeIsKeyOfPdict ==
    \A name \in DOMAIN fdict \cup {"atoms", "qtpie"} :
        (DataIn(name) /\ err = "none")
        => /\ itype # None
           /\ itype[1] \in DOMAIN pdict

----------------------------------------------------------------------------
(* C38 *)

\* C38: after a blank line, a comment line, a header, a defaults or
\* moleculetype data line, or a data line of an unrecognized section, fed
\* without an error, the reader shows no interaction type and an empty
\* suffix: nothing of an earlier line.
C38_NothingLeftOfEarlierLine ==
    ( /\ line \in AllLines
      /\ err = "none"
      /\ \/ IsBlankOrComment(line)
         \/ IsHeader(line)
         \/ DataIn("defaults")
         \/ DataIn("moleculetype")
         \/ IsData(line) /\ Unrecognized(sec) )
    => /\ itype = None
       /\ suffix = ""

----------------------------------------------------------------------------
(* C39 *)

\* C39: a call that raises an error leaves the section, the residue name,
\* the atom table, the nonbonded code and the parameter tables as they
\* were before the call.
C39_ErrorLeavesState ==
    [][ err' # "none"
        => /\ sec' = sec
           /\ res' = res
           /\ adict' = adict
           /\ nbtype' = nbtype
           /\ pdict' = pdict ]_vars

----------------------------------------------------------------------------
(* C40 *)

\* C40: after a header line the section is the identifier between its
\* brackets, without the blanks or tabs around it and without anything that
\* follows the closing bracket.
C40_HeaderNamesSection ==
    (line \in AllLines /\ IsHeader(line))
    => /\ err = "none"
       /\ sec = Some(EnclosedName(line))
============================================================================
